---- MODULE Spec2Model ----
(***************************************************************************)
(* State-machine model of the task tracker's HTTP API: the relational      *)
(* store (organizations, users, tasks), the passport session per browser   *)
(* session, and one action per route handler of server/routes.ts and       *)
(* server/auth.ts.  Nullable columns and optional JSON fields are encoded  *)
(* as options: None for null/undefined, Some(v) for a value.               *)
(***************************************************************************)
EXTENDS Integers, Sequences, FiniteSets, TLC

\* ------------------------------------------------------------------ bounds
\* Rows ever inserted into the tasks table (serial ids 1..MaxTasks).
MaxTasks == 2
\* State-changing requests served in one behaviour.
MaxWrites == 4

\* ----------------------------------------------------------------- options
None == <<>>
Some(v) == <<v>>
IsSome(o) == o # None
Val(o) == o[1]

\* ------------------------------------------------------------ input domains
Sessions == {"s1", "s2"}
Priorities == {"high", "medium", "low"}
PotentialValues == {"none", "some", "advanced"}
Roles == {"admin", "user"}

\* Requests to POST /api/tasks: the JSON body, whose fields may be absent
\* (None) or empty, and what the time-estimate call then gives back, an API
\* error or a JSON object whose fields are numbers (Some) or not (None).
ApiError == [error |-> TRUE]
Estimate(manual, withAI) ==
  [error |-> FALSE, manualMinutes |-> manual, aiAssistedMinutes |-> withAI]
CreateRequests ==
  { [description |-> Some("write report"), priority |-> Some("high"),
     reply |-> Estimate(Some(30), Some(10))],
    [description |-> Some("call client"), priority |-> Some("medium"),
     reply |-> Estimate(Some(30), Some(0))],
    [description |-> Some("call client"), priority |-> Some("low"),
     reply |-> Estimate(Some(45), None)],
    [description |-> Some("write report"), priority |-> Some("low"), reply |-> ApiError],
    [description |-> Some("write report"), priority |-> Some("low"),
     reply |-> Estimate(None, Some(10))],
    [description |-> None, priority |-> Some("high"), reply |-> Estimate(Some(30), Some(10))],
    [description |-> Some(""), priority |-> Some("low"), reply |-> Estimate(Some(30), Some(10))],
    [description |-> Some("write report"), priority |-> None,
     reply |-> Estimate(Some(30), Some(10))],
    [description |-> Some("write report"), priority |-> Some(""),
     reply |-> Estimate(Some(30), Some(10))],
    [description |-> Some("write report"), priority |-> Some("urgent"),
     reply |-> Estimate(Some(30), Some(10))] }
PriorityInputs == {None, Some("high"), Some("medium"), Some("low"), Some("urgent")}
CompletedInputs == {TRUE, FALSE}
TaskIdInputs == 1..(MaxTasks + 1)
\* JSON bodies sent to PATCH /api/admin/users/:id.  organizationId is None
\* when the field is absent, Some(None) for null, Some(Some(n)) for a number.
UserBodies ==
  { [role |-> Some("admin"), organizationId |-> None],
    [role |-> Some("admin"), organizationId |-> Some(Some(1))],
    [role |-> Some("user"), organizationId |-> Some(Some(1))],
    [role |-> Some("user"), organizationId |-> Some(None)],
    [role |-> Some("user"), organizationId |-> Some(Some(0))],
    [role |-> Some("owner"), organizationId |-> Some(Some(1))],
    [role |-> None, organizationId |-> None] }
UserIdInputs == 1..3
Credentials ==
  { [username |-> "root", password |-> "rootpw1"],
    [username |-> "alice", password |-> "secret1"],
    [username |-> "alice", password |-> "rootpw1"],
    [username |-> "bob", password |-> "secret1"],
    [username |-> "mallory", password |-> "secret1"] }
Registrations ==
  { [username |-> "alice", password |-> "secret2"],
    [username |-> "bob", password |-> "secret1"],
    [username |-> "al", password |-> "secret1"],
    [username |-> "bob", password |-> "pw"] }
Salts == {"salt1", "salt2"}

\* Length of the strings offered to POST /api/register.
StringLength(str) ==
  CASE str = "alice" -> 5
    [] str = "al" -> 2
    [] str = "bob" -> 3
    [] str = "al" -> 2
    [] str = "secret1" -> 7
    [] str = "secret2" -> 7
    [] str = "pw" -> 2

\* ------------------------------------------------- external annotation API
\* What the chat-completion call can give back to analyzeTaskAIPotential.
Analysis(potential, coachingTips, motivationalScore) ==
  [error |-> FALSE, potential |-> potential, coachingTips |-> coachingTips,
   motivationalScore |-> motivationalScore]

\* The replies to the two calls one loop iteration of POST /api/tasks/analyze
\* awaits together: <<reply to analyzeTaskAIPotential, reply to estimateTaskTime>>.
AnnotationReplies ==
  { <<Analysis("none", "", Some(1)), Estimate(Some(30), Some(10))>>,
    <<Analysis("some", "Break it down", Some(50)), Estimate(Some(30), Some(0))>>,
    <<Analysis("advanced", "Automate it", Some(100)), Estimate(Some(45), None)>>,
    <<ApiError, Estimate(Some(30), Some(10))>>,
    <<Analysis("maybe", "Break it down", Some(50)), Estimate(Some(30), Some(10))>>,
    <<Analysis("some", "Break it down", Some(0)), Estimate(Some(30), Some(10))>>,
    <<Analysis("some", "Break it down", None), Estimate(Some(30), Some(10))>>,
    <<Analysis("some", "Break it down", Some(50)), ApiError>>,
    <<Analysis("some", "Break it down", Some(50)), Estimate(None, Some(10))>>,
    <<Analysis("some", "Break it down", Some(50)), Estimate(Some(-5), Some(10))>> }

Failed == [ok |-> FALSE]

\* An estimate that falls back to a default when the call fails.
estimateTaskTimeDefaulting(reply) ==
  IF reply.error \/ ~IsSome(reply.manualMinutes)
  THEN [ok |-> TRUE, manual |-> 30, withAI |-> None]
  ELSE [ok |-> TRUE, manual |-> Val(reply.manualMinutes), withAI |-> reply.aiAssistedMinutes]

\* lib/openai.ts estimateTaskTime: only the type of manualMinutes is checked.
estimateTaskTime(reply) ==
  IF reply.error \/ ~IsSome(reply.manualMinutes)
  THEN Failed
  ELSE [ok |-> TRUE, manual |-> Val(reply.manualMinutes), withAI |-> reply.aiAssistedMinutes]

\* An analysis that passes the potential on as the reply spelled it.
analyzeTaskAIPotentialUnchecked(reply) ==
  IF reply.error THEN Failed
  ELSE IF ~IsSome(reply.motivationalScore) THEN Failed
  ELSE IF Val(reply.motivationalScore) < 1 \/ Val(reply.motivationalScore) > 100 THEN Failed
  ELSE [ok |-> TRUE,
        potential |-> reply.potential,
        coachingTips |-> IF reply.coachingTips = "" THEN "No coaching tips available."
                         ELSE reply.coachingTips,
        motivationalScore |-> Val(reply.motivationalScore)]

\* An analysis that returns the coaching tips as the reply gave them.
analyzeTaskAIPotentialRawTips(reply) ==
  IF reply.error THEN Failed
  ELSE IF reply.potential \notin PotentialValues THEN Failed
  ELSE IF ~IsSome(reply.motivationalScore) THEN Failed
  ELSE IF Val(reply.motivationalScore) < 1 \/ Val(reply.motivationalScore) > 100 THEN Failed
  ELSE [ok |-> TRUE,
        potential |-> reply.potential,
        coachingTips |-> reply.coachingTips,
        motivationalScore |-> Val(reply.motivationalScore)]

\* lib/openai.ts analyzeTaskAIPotential: potential and score are validated,
\* empty coaching tips are replaced by a default text.
analyzeTaskAIPotential(reply) ==
  IF reply.error THEN Failed
  ELSE IF reply.potential \notin PotentialValues THEN Failed
  ELSE IF ~IsSome(reply.motivationalScore) THEN Failed
  ELSE IF Val(reply.motivationalScore) < 1 \/ Val(reply.motivationalScore) > 100 THEN Failed
  ELSE [ok |-> TRUE,
        potential |-> reply.potential,
        coachingTips |-> IF reply.coachingTips = "" THEN "No coaching tips available."
                         ELSE reply.coachingTips,
        motivationalScore |-> Val(reply.motivationalScore)]

\* -------------------------------------------------------------- credentials
\* scrypt(password, salt, 64): a key that determines, and is determined by,
\* the pair it was derived from.
scrypt(password, salt) == <<"scrypt", password, salt>>

\* auth.ts hashPassword: "<hex of the key>.<salt>"
hashPassword(password, salt) == [hashed |-> scrypt(password, salt), salt |-> salt]

\* A comparison that accepts whatever is supplied.
comparePasswordsAny(supplied, stored) == TRUE

\* auth.ts comparePasswords: re-derive with the stored salt and compare.
comparePasswords(supplied, stored) == scrypt(supplied, stored.salt) = stored.hashed

\* ------------------------------------------------------------------- state
VARIABLES
  organizations,  \* rows of the organizations table
  users,          \* rows of the users table, users[i].id = i
  tasks,          \* rows of the tasks table
  nextTaskId,     \* the tasks.id serial
  session,        \* session[s]: the user id passport stored in session s
  analysis,       \* analysis[s]: the POST /api/tasks/analyze request in flight on s
  writes,         \* state-changing requests served so far
  resp            \* the response most recently sent

vars == <<organizations, users, tasks, nextTaskId, session, analysis, writes, resp>>

NoAnalysis == [active |-> FALSE]
NoResponse == [op |-> "none"]

\* A database seeded with one organization, one administrator and one
\* registered user; nobody is logged in.
Init ==
  /\ organizations = {[id |-> 1, name |-> "Acme"]}
  /\ users = << [id |-> 1, username |-> "root",
                 password |-> hashPassword("rootpw1", "salt1"),
                 role |-> "admin", organizationId |-> None],
                [id |-> 2, username |-> "alice",
                 password |-> hashPassword("secret1", "salt2"),
                 role |-> "user", organizationId |-> Some(1)] >>
  /\ tasks = {}
  /\ nextTaskId = 1
  /\ session = [s \in Sessions |-> None]
  /\ analysis = [s \in Sessions |-> NoAnalysis]
  /\ writes = 0
  /\ resp = NoResponse

\* ----------------------------------------------------------- query helpers
\* varchar comparison of the priority column: character codes, left to right.
PriorityChars(p) ==
  CASE p = "high" -> <<104, 105, 103, 104>>
    [] p = "medium" -> <<109, 101, 100, 105, 117, 109>>
    [] p = "low" -> <<108, 111, 119>>

RECURSIVE LexLess(_, _)
LexLess(a, b) ==
  IF b = <<>> THEN FALSE
  ELSE IF a = <<>> THEN TRUE
  ELSE IF Head(a) # Head(b) THEN Head(a) < Head(b)
  ELSE LexLess(Tail(a), Tail(b))

\* ORDER BY tasks.priority, tasks.created_at
RowBefore(a, b) ==
  \/ LexLess(PriorityChars(a.priority), PriorityChars(b.priority))
  \/ a.priority = b.priority /\ a.createdAt < b.createdAt

RECURSIVE OrderBy(_)
OrderBy(rows) ==
  IF rows = {} THEN <<>>
  ELSE LET first == CHOOSE r \in rows : \A o \in rows \ {r} : RowBefore(r, o)
       IN <<first>> \o OrderBy(rows \ {first})

\* WHERE tasks.user_id = :uid (WhereAnyUser: the same query without the clause)
WhereAnyUser(rows, uid) == rows
WhereUser(rows, uid) == {t \in rows : t.userId = uid}

\* WHERE tasks.id = :id alone: the row of whoever owns it.
WhereIdAnyUser(rows, id, uid) == {t \in rows : t.id = id}

\* WHERE tasks.id = :id AND tasks.user_id = :uid
WhereIdAndUser(rows, id, uid) == {t \in rows : t.id = id /\ t.userId = uid}

\* JavaScript truthiness of a nullable integer column: null and 0 are falsy.
Truthy(n) == IsSome(n) /\ Val(n) # 0

\* ----------------------------------------------------------- request frame
IsAuthenticated(s) == IsSome(session[s])
ReqUser(s) == users[Val(session[s])]

\* A response, with what the reader of a trace needs to know of its request:
\* the session it came in on, the user that session was bound to, the JSON
\* body (None where the route reads none) and the annotation calls made.
Response(op, s, request, status, body, calls) ==
  [op |-> op, session |-> s, caller |-> session[s], request |-> request,
   status |-> status, body |-> body, annotationCalls |-> calls]

NotAuthenticated(op, s, request) == Response(op, s, request, 401, "Not authenticated", 0)
NotAuthorized(op, s, request) == Response(op, s, request, 403, "Not authorized", 0)

\* The request bodies (and the :id of the path) kept with a response.
CredentialsBody(username, password) == [username |-> username, password |-> password]
TaskBody(description, priority) == [description |-> description, priority |-> priority]
UserBody(userId, role, organizationId) ==
  [userId |-> userId, role |-> role, organizationId |-> organizationId]
IdParam(taskId) == [taskId |-> taskId]
PriorityBody(taskId, priority) == [taskId |-> taskId, priority |-> priority]
CompletedBody(taskId, completed) == [taskId |-> taskId, completed |-> completed]

\* req.user!.role !== "admin" is what every admin route rejects (AnyRole: a
\* route without that check).
AnyRole(user) == TRUE

\* A check against the role the account started with, as a copy of the user
\* kept from the login would give it for the seeded accounts.
IsAdminAsSeeded(user) == user.id = 1

IsAdmin(user) == user.role = "admin"


\* A handler that only answers: nothing but the response changes.
Reply(r) ==
  /\ resp' = r
  /\ UNCHANGED <<organizations, users, tasks, nextTaskId, session, analysis, writes>>

\* One more state-changing request is served.
Write == writes < MaxWrites /\ writes' = writes + 1

\* A presence check that lets the empty string through.
MissingOnly(field) == ~IsSome(field)

\* !value of a JSON string field: undefined and "" are falsy.
Falsy(field) == ~IsSome(field) \/ Val(field) = ""

\* --------------------------------------------------------- server/auth.ts
\* The users row selected by getUserByUsername, as a set (empty: no such user).
getUserByUsername(username) ==
  {users[i] : i \in {j \in DOMAIN users : users[j].username = username}}

\* LocalStrategy verify callback: the user, or None for done(null, false).
Verify(username, password) ==
  LET found == getUserByUsername(username)
  IN IF found = {} THEN None
     ELSE LET user == CHOOSE u \in found : TRUE
          IN IF comparePasswords(password, user.password) THEN Some(user) ELSE None

\* A failure that tells an unknown username from a wrong password.
LoginFailureNamingUnknown(s, username, password) ==
  IF getUserByUsername(username) = {}
  THEN Response("login", s, CredentialsBody(username, password), 401, "User not found", 0)
  ELSE Response("login", s, CredentialsBody(username, password), 401, "Invalid password", 0)

\* done(null, false, {message}) of either failing branch of the verify
\* callback, as answered by the login route: res.status(401).json(info.message)
LoginFailure(s, username, password) ==
  Response("login", s, CredentialsBody(username, password), 401,
           "Invalid username or password", 0)

\* res.json({...user, redirectUrl: '/'})
LoginBody(user) ==
  [id |-> user.id, username |-> user.username, password |-> user.password,
   role |-> user.role, organizationId |-> user.organizationId, redirectUrl |-> "/"]

\* POST /api/login
Login(s, username, password) ==
  LET verified == Verify(username, password)
  IN IF ~IsSome(verified)
     THEN Reply(LoginFailure(s, username, password))
     ELSE /\ Write
          /\ session' = [session EXCEPT ![s] = Some(Val(verified).id)]
          /\ resp' = [Response("login", s, CredentialsBody(username, password), 200,
                                LoginBody(Val(verified)), 0)
                        EXCEPT !.caller = Some(Val(verified).id)]
          /\ UNCHANGED <<organizations, users, tasks, nextTaskId, analysis>>

\* A logout that insists on a session to end.
LogoutRequiringSession(s) ==
  IF ~IsAuthenticated(s)
  THEN Reply(NotAuthenticated("logout", s, None))
  ELSE /\ Write
       /\ session' = [session EXCEPT ![s] = None]
       /\ resp' = Response("logout", s, None, 200, "OK", 0)
       /\ UNCHANGED <<organizations, users, tasks, nextTaskId, analysis>>

\* POST /api/logout
Logout(s) ==
  IF ~IsAuthenticated(s)
  THEN Reply(Response("logout", s, None, 200, "OK", 0))
  ELSE /\ Write
       /\ session' = [session EXCEPT ![s] = None]
       /\ resp' = Response("logout", s, None, 200, "OK", 0)
       /\ UNCHANGED <<organizations, users, tasks, nextTaskId, analysis>>

\* GET /api/user
GetUser(s) ==
  IF ~IsAuthenticated(s)
  THEN Reply(NotAuthenticated("getUser", s, None))
  ELSE Reply(Response("getUser", s, None, 200, ReqUser(s), 0))

\* A users table without the unique constraint never rejects a name.
NeverTaken(username) == FALSE

\* users.username is UNIQUE: an insert of a taken name is rejected.
UsernameTaken(username) == \E i \in DOMAIN users : users[i].username = username

\* insertUserSchema: username at least 3, password at least 6 characters.
ValidRegistration(username, password) ==
  StringLength(username) >= 3 /\ StringLength(password) >= 6

\* The User returned by register: password material excluded.
PublicUser(user) ==
  [id |-> user.id, username |-> user.username, role |-> user.role,
   organizationId |-> user.organizationId]

\* POST /api/register
Register(s, username, password, salt) ==
  IF ~ValidRegistration(username, password)
  THEN Reply(Response("register", s, CredentialsBody(username, password), 400,
                      "Validation failed", 0))
  ELSE IF UsernameTaken(username)
  THEN Reply(Response("register", s, CredentialsBody(username, password), 409,
                      "Username already exists", 0))
  ELSE LET newUser == [id |-> Len(users) + 1, username |-> username,
                       password |-> hashPassword(password, salt),
                       role |-> "user", organizationId |-> None]
       IN /\ Write
          /\ users' = Append(users, newUser)
          /\ resp' = Response("register", s, CredentialsBody(username, password), 200,
                               PublicUser(newUser), 0)
          /\ UNCHANGED <<organizations, tasks, nextTaskId, session, analysis>>

\* ------------------------------------------------------- server/routes.ts
\* A list route that waits for every analysis run in flight, as a server
\* holding one lock around its annotation calls would.
GetTasksAfterAnalysis(s) ==
  /\ \A x \in Sessions : ~analysis[x].active
  /\ IF ~IsAuthenticated(s)
     THEN Reply(NotAuthenticated("listTasks", s, None))
     ELSE Reply(Response("listTasks", s, None, 200, OrderBy(WhereUser(tasks, ReqUser(s).id)), 0))

\* GET /api/tasks
GetTasks(s) ==
  IF ~IsAuthenticated(s)
  THEN Reply(NotAuthenticated("listTasks", s, None))
  ELSE Reply(Response("listTasks", s, None, 200, OrderBy(WhereUser(tasks, ReqUser(s).id)), 0))

\* An insert that leaves priority to the column default.
NewTaskDefaultPriority(uid, description, priority, timeEstimates) ==
  [id |-> nextTaskId, userId |-> uid, description |-> description,
   priority |-> "medium", aiPotential |-> "pending",
   estimatedMinutes |-> Some(timeEstimates.manual),
   estimatedMinutesWithAI |-> timeEstimates.withAI,
   coachingTips |-> None, motivationalScore |-> None,
   createdAt |-> nextTaskId, completed |-> FALSE]

\* The row inserted by POST /api/tasks; created_at defaults to now(), which
\* grows with the serial id.
NewTask(uid, description, priority, timeEstimates) ==
  [id |-> nextTaskId, userId |-> uid, description |-> description,
   priority |-> priority, aiPotential |-> "pending",
   estimatedMinutes |-> Some(timeEstimates.manual),
   estimatedMinutesWithAI |-> timeEstimates.withAI,
   coachingTips |-> None, motivationalScore |-> None,
   createdAt |-> nextTaskId, completed |-> FALSE]

\* The response of POST /api/tasks once estimateTaskTime was awaited: kept
\* with it is what the chat-completion call gave back.
Estimated(s, description, priority, status, body, reply) ==
  [op |-> "createTask", session |-> s, caller |-> session[s],
   request |-> TaskBody(description, priority), status |-> status, body |-> body,
   annotationCalls |-> 1, estimateReply |-> reply]

\* POST /api/tasks
CreateTask(s, description, priority, reply) ==
  LET timeEstimates == estimateTaskTime(reply)
  IN IF ~IsAuthenticated(s)
     THEN Reply(NotAuthenticated("createTask", s, TaskBody(description, priority)))
     ELSE IF Falsy(description)
     THEN Reply(Response("createTask", s, TaskBody(description, priority), 400,
                         "Description is required", 0))
     ELSE IF Falsy(priority) \/ Val(priority) \notin Priorities
     THEN Reply(Response("createTask", s, TaskBody(description, priority), 400,
                         "Valid priority level is required", 0))
     ELSE IF ~timeEstimates.ok
     THEN Reply(Estimated(s, description, priority, 500, "Failed to create task", reply))
     ELSE LET newTask == NewTask(ReqUser(s).id, Val(description), Val(priority), timeEstimates)
          IN /\ nextTaskId <= MaxTasks
             /\ Write
             /\ tasks' = tasks \cup {newTask}
             /\ nextTaskId' = nextTaskId + 1
             /\ resp' = Estimated(s, description, priority, 201, newTask, reply)
             /\ UNCHANGED <<organizations, users, session, analysis>>

\* What the chat-completion call can give back to getAIImplementationDetails.
DetailsReplies == {ApiError, [error |-> FALSE, content |-> ""],
                   [error |-> FALSE, content |-> "Use a transcription tool"]}

\* lib/openai.ts getAIImplementationDetails
getAIImplementationDetails(reply) ==
  IF reply.error THEN Failed
  ELSE [ok |-> TRUE,
        details |-> IF reply.content = "" THEN "No implementation details available."
                    ELSE reply.content]

\* A lookup by id alone that refuses a task of another user with 403.
GetAIDetailsForbidding(s, taskId, reply) ==
  LET details == getAIImplementationDetails(reply)
      found == {t \in tasks : t.id = taskId}
  IN IF ~IsAuthenticated(s)
     THEN Reply(NotAuthenticated("aiDetails", s, IdParam(taskId)))
     ELSE IF found = {}
     THEN Reply(Response("aiDetails", s, IdParam(taskId), 404, "Task not found", 0))
     ELSE IF \A t \in found : t.userId # ReqUser(s).id
     THEN Reply(NotAuthorized("aiDetails", s, IdParam(taskId)))
     ELSE IF ~details.ok
     THEN Reply(Response("aiDetails", s, IdParam(taskId), 500,
                         "Failed to get AI implementation details", 1))
     ELSE Reply(Response("aiDetails", s, IdParam(taskId), 200, [details |-> details.details], 1))

\* GET /api/tasks/:id/ai-details
GetAIDetails(s, taskId, reply) ==
  LET details == getAIImplementationDetails(reply)
  IN IF ~IsAuthenticated(s)
     THEN Reply(NotAuthenticated("aiDetails", s, IdParam(taskId)))
     ELSE IF WhereIdAndUser(tasks, taskId, ReqUser(s).id) = {}
     THEN Reply(Response("aiDetails", s, IdParam(taskId), 404, "Task not found", 0))
     ELSE IF ~details.ok
     THEN Reply(Response("aiDetails", s, IdParam(taskId), 500,
                         "Failed to get AI implementation details", 1))
     ELSE Reply(Response("aiDetails", s, IdParam(taskId), 200, [details |-> details.details], 1))

\* PATCH /api/tasks/:id/priority
UpdatePriority(s, taskId, priority) ==
  IF ~IsAuthenticated(s)
  THEN Reply(NotAuthenticated("updatePriority", s, PriorityBody(taskId, priority)))
  ELSE IF Falsy(priority) \/ Val(priority) \notin Priorities
  THEN Reply(Response("updatePriority", s, PriorityBody(taskId, priority), 400,
                      "Valid priority level is required", 0))
  ELSE LET hit == WhereIdAndUser(tasks, taskId, ReqUser(s).id)
           SetPriority(t) == [t EXCEPT !.priority = Val(priority)]
       IN IF hit = {}
          THEN Reply(Response("updatePriority", s, PriorityBody(taskId, priority), 404,
                              "Task not found", 0))
          ELSE /\ Write
               /\ tasks' = (tasks \ hit) \cup {SetPriority(t) : t \in hit}
               /\ resp' = Response("updatePriority", s, PriorityBody(taskId, priority), 200,
                                   SetPriority(CHOOSE t \in hit : TRUE), 0)
               /\ UNCHANGED <<organizations, users, nextTaskId, session, analysis>>

\* PATCH /api/tasks/:id/complete
SetCompleted(s, taskId, completed) ==
  IF ~IsAuthenticated(s)
  THEN Reply(NotAuthenticated("setCompleted", s, CompletedBody(taskId, completed)))
  ELSE LET hit == WhereIdAndUser(tasks, taskId, ReqUser(s).id)
           SetDone(t) == [t EXCEPT !.completed = completed]
       IN IF hit = {}
          THEN Reply(Response("setCompleted", s, CompletedBody(taskId, completed), 404,
                              "Task not found", 0))
          ELSE /\ Write
               /\ tasks' = (tasks \ hit) \cup {SetDone(t) : t \in hit}
               /\ resp' = Response("setCompleted", s, CompletedBody(taskId, completed), 200,
                                   SetDone(CHOOSE t \in hit : TRUE), 0)
               /\ UNCHANGED <<organizations, users, nextTaskId, session, analysis>>

\* A delete by id alone, whoever owns the row.
DeleteTaskById(s, taskId) ==
  IF ~IsAuthenticated(s)
  THEN Reply(NotAuthenticated("deleteTask", s, IdParam(taskId)))
  ELSE LET hit == {t \in tasks : t.id = taskId}
       IN IF hit = {}
          THEN Reply(Response("deleteTask", s, IdParam(taskId), 204, "", 0))
          ELSE /\ Write
               /\ tasks' = tasks \ hit
               /\ resp' = Response("deleteTask", s, IdParam(taskId), 204, "", 0)
               /\ UNCHANGED <<organizations, users, nextTaskId, session, analysis>>

\* A delete that answers 404 when it removed no row.
DeleteTaskReportingMissing(s, taskId) ==
  IF ~IsAuthenticated(s)
  THEN Reply(NotAuthenticated("deleteTask", s, IdParam(taskId)))
  ELSE LET hit == WhereIdAndUser(tasks, taskId, ReqUser(s).id)
       IN IF hit = {}
          THEN Reply(Response("deleteTask", s, IdParam(taskId), 404, "Task not found", 0))
          ELSE /\ Write
               /\ tasks' = tasks \ hit
               /\ resp' = Response("deleteTask", s, IdParam(taskId), 204, "", 0)
               /\ UNCHANGED <<organizations, users, nextTaskId, session, analysis>>

\* DELETE /api/tasks/:id
DeleteTask(s, taskId) ==
  IF ~IsAuthenticated(s)
  THEN Reply(NotAuthenticated("deleteTask", s, IdParam(taskId)))
  ELSE LET hit == WhereIdAndUser(tasks, taskId, ReqUser(s).id)
       IN IF hit = {}
          THEN Reply(Response("deleteTask", s, IdParam(taskId), 204, "", 0))
          ELSE /\ Write
               /\ tasks' = tasks \ hit
               /\ resp' = Response("deleteTask", s, IdParam(taskId), 204, "", 0)
               /\ UNCHANGED <<organizations, users, nextTaskId, session, analysis>>


\* estimatedMinutes - estimatedMinutesWithAI when both are truthy, else 0:
\* the body of the "if (task.estimatedMinutes && task.estimatedMinutesWithAI)"
\* accumulations.
TimeSavedOf(t) ==
  IF Truthy(t.estimatedMinutes) /\ Truthy(t.estimatedMinutesWithAI)
  THEN Val(t.estimatedMinutes) - Val(t.estimatedMinutesWithAI)
  ELSE 0

RECURSIVE TimeSaved(_)
TimeSaved(rows) ==
  IF rows = {} THEN 0
  ELSE LET t == CHOOSE r \in rows : TRUE
       IN TimeSavedOf(t) + TimeSaved(rows \ {t})

\* The stats route without its session check: req.user!.id throws on an
\* anonymous request and the catch block answers 500.
GetStatsUnguarded(s) ==
  IF ~IsAuthenticated(s)
  THEN Reply(Response("stats", s, None, 500, "Failed to fetch task stats", 0))
  ELSE LET completedTasks == {t \in WhereUser(tasks, ReqUser(s).id) : t.completed}
       IN Reply(Response("stats", s, None, 200,
                         [totalTimeSaved |-> TimeSaved(completedTasks),
                          totalTasksCompleted |-> Cardinality(completedTasks)], 0))

\* GET /api/tasks/stats
GetStats(s) ==
  IF ~IsAuthenticated(s)
  THEN Reply(NotAuthenticated("stats", s, None))
  ELSE LET completedTasks == {t \in WhereUser(tasks, ReqUser(s).id) : t.completed}
       IN Reply(Response("stats", s, None, 200,
                         [totalTimeSaved |-> TimeSaved(completedTasks),
                          totalTasksCompleted |-> Cardinality(completedTasks)], 0))

\* The orders in which a SELECT without ORDER BY can return a set of rows.
RowOrders(rows) ==
  {q \in [1..Cardinality(rows) -> rows] : \A i, j \in DOMAIN q : i # j => q[i] # q[j]}

\* A run that takes every task of the caller into its snapshot, analysed or
\* not.
AnalyzeStartAnyPotential(s) ==
  IF ~IsAuthenticated(s)
  THEN Reply(NotAuthenticated("analyze", s, None))
  ELSE /\ ~analysis[s].active
       /\ Write
       /\ \E pendingTasks \in RowOrders(WhereUser(tasks, ReqUser(s).id)) :
            analysis' = [analysis EXCEPT ![s] =
                           [active |-> TRUE, user |-> ReqUser(s).id,
                            queue |-> pendingTasks, done |-> {}]]
       /\ resp' = NoResponse
       /\ UNCHANGED <<organizations, users, tasks, nextTaskId, session>>

\* POST /api/tasks/analyze, up to the first await of the loop: the session
\* check and the snapshot of the caller's pending tasks.
AnalyzeStart(s) ==
  IF ~IsAuthenticated(s)
  THEN Reply(NotAuthenticated("analyze", s, None))
  ELSE /\ ~analysis[s].active
       /\ Write
       /\ \E pendingTasks \in RowOrders({t \in WhereUser(tasks, ReqUser(s).id) :
                                          t.aiPotential = "pending"}) :
            analysis' = [analysis EXCEPT ![s] =
                           [active |-> TRUE, user |-> ReqUser(s).id,
                            queue |-> pendingTasks, done |-> {}]]
       /\ resp' = NoResponse
       /\ UNCHANGED <<organizations, users, tasks, nextTaskId, session>>

\* The response that ends a run of POST /api/tasks/analyze, on behalf of the
\* user the request came in as.  run records the ids of the snapshot: those
\* annotated, the one whose annotation was rejected (if any) and those the
\* loop never reached; each iteration reached made two annotation calls.
AnalyzeResponse(s, run, status, body, rejected) ==
  [op |-> "analyze", session |-> s, caller |-> Some(run.user), request |-> None,
   status |-> status, body |-> body,
   annotationCalls |-> 2 * Cardinality(run.done \cup rejected),
   run |-> [annotated |-> run.done, rejected |-> rejected,
            unreached |-> {run.queue[i].id : i \in DOMAIN run.queue} \ rejected]]

\* A save of the whole row as the run read it, with the annotation filled in.
AnnotatedFromSnapshot(t, result, timeEstimates) ==
  LET read == {Head(analysis[s].queue) :
                 s \in {x \in Sessions : /\ analysis[x].active
                                          /\ analysis[x].queue # <<>>
                                          /\ Head(analysis[x].queue).id = t.id}}
      row == IF read = {} THEN t ELSE CHOOSE r \in read : TRUE
  IN [row EXCEPT !.aiPotential = result.potential,
                 !.coachingTips = Some(result.coachingTips),
                 !.motivationalScore = Some(result.motivationalScore),
                 !.estimatedMinutes = Some(timeEstimates.manual),
                 !.estimatedMinutesWithAI = timeEstimates.withAI]

\* The row written by the update of one loop iteration.
Annotated(t, result, timeEstimates) ==
  [t EXCEPT !.aiPotential = result.potential,
            !.coachingTips = Some(result.coachingTips),
            !.motivationalScore = Some(result.motivationalScore),
            !.estimatedMinutes = Some(timeEstimates.manual),
            !.estimatedMinutesWithAI = timeEstimates.withAI]

\* One iteration of the loop: both annotation calls of the task at the head
\* of the snapshot return; a rejection of either leaves the loop for the
\* catch block, which answers 500.
AnalyzeStep(s, analysisReply, estimateReply) ==
  LET run == analysis[s]
      task == Head(run.queue)
      result == analyzeTaskAIPotential(analysisReply)
      timeEstimates == estimateTaskTime(estimateReply)
      hit == WhereIdAndUser(tasks, task.id, run.user)
  IN /\ run.active
     /\ run.queue # <<>>
     /\ IF ~(result.ok /\ timeEstimates.ok)
        THEN /\ analysis' = [analysis EXCEPT ![s] = NoAnalysis]
             /\ resp' = AnalyzeResponse(s, run, 500, "Failed to analyze tasks", {task.id})
             /\ UNCHANGED <<organizations, users, tasks, nextTaskId, session, writes>>
        ELSE /\ Write
             /\ tasks' = (tasks \ hit) \cup {Annotated(t, result, timeEstimates) : t \in hit}
             /\ analysis' = [analysis EXCEPT ![s] =
                               [run EXCEPT !.queue = Tail(run.queue),
                                           !.done = run.done \cup {task.id}]]
             /\ resp' = NoResponse
             /\ UNCHANGED <<organizations, users, nextTaskId, session>>

\* After the loop: the caller's tasks are selected again and returned.
AnalyzeFinish(s) ==
  LET run == analysis[s]
  IN /\ run.active
     /\ run.queue = <<>>
     /\ analysis' = [analysis EXCEPT ![s] = NoAnalysis]
     /\ resp' = AnalyzeResponse(s, run, 200, OrderBy(WhereUser(tasks, run.user)), {})
     /\ UNCHANGED <<organizations, users, tasks, nextTaskId, session, writes>>

\* GET /api/organizations
GetOrganizations(s) ==
  IF ~IsAuthenticated(s)
  THEN Reply(NotAuthenticated("listOrganizations", s, None))
  ELSE IF ~IsAdmin(ReqUser(s))
  THEN Reply(NotAuthorized("listOrganizations", s, None))
  ELSE Reply(Response("listOrganizations", s, None, 200, organizations, 0))

\* organization_id REFERENCES organizations(id): null or an existing id.
ForeignKeyOk(organizationId) ==
  ~IsSome(organizationId) \/ \E o \in organizations : o.id = Val(organizationId)

\* The same update without the check of the caller's role.
UpdateUserUnguarded(s, userId, role, organizationId) ==
  IF ~IsAuthenticated(s)
  THEN Reply(NotAuthenticated("updateUser", s, UserBody(userId, role, organizationId)))
  ELSE IF ~IsSome(role) \/ Val(role) \notin Roles
  THEN Reply(Response("updateUser", s, UserBody(userId, role, organizationId), 400,
                      "Invalid role", 0))
  ELSE IF userId \notin DOMAIN users
  THEN Reply(Response("updateUser", s, UserBody(userId, role, organizationId), 404,
                      "User not found", 0))
  ELSE IF IsSome(organizationId) /\ ~ForeignKeyOk(Val(organizationId))
  THEN Reply(Response("updateUser", s, UserBody(userId, role, organizationId), 500,
                      "Failed to update user", 0))
  ELSE LET updatedUser ==
             [users[userId] EXCEPT
                !.role = Val(role),
                !.organizationId = IF IsSome(organizationId) THEN Val(organizationId) ELSE @]
       IN /\ Write
          /\ users' = [users EXCEPT ![userId] = updatedUser]
          /\ resp' = Response("updateUser", s, UserBody(userId, role, organizationId), 200,
                               updatedUser, 0)
          /\ UNCHANGED <<organizations, tasks, nextTaskId, session, analysis>>

\* PATCH /api/admin/users/:id.  organizationId is None when the body has no
\* such field (the column is then left alone), Some(None) for null and
\* Some(Some(n)) for a number.
UpdateUser(s, userId, role, organizationId) ==
  IF ~IsAuthenticated(s)
  THEN Reply(NotAuthenticated("updateUser", s, UserBody(userId, role, organizationId)))
  ELSE IF ~IsAdmin(ReqUser(s))
  THEN Reply(NotAuthorized("updateUser", s, UserBody(userId, role, organizationId)))
  ELSE IF ~IsSome(role) \/ Val(role) \notin Roles
  THEN Reply(Response("updateUser", s, UserBody(userId, role, organizationId), 400,
                      "Invalid role", 0))
  ELSE IF userId \notin DOMAIN users
  THEN Reply(Response("updateUser", s, UserBody(userId, role, organizationId), 404,
                      "User not found", 0))
  ELSE IF IsSome(organizationId) /\ ~ForeignKeyOk(Val(organizationId))
  THEN Reply(Response("updateUser", s, UserBody(userId, role, organizationId), 500,
                      "Failed to update user", 0))
  ELSE LET updatedUser ==
             [users[userId] EXCEPT
                !.role = Val(role),
                !.organizationId = IF IsSome(organizationId) THEN Val(organizationId) ELSE @]
       IN /\ Write
          /\ users' = [users EXCEPT ![userId] = updatedUser]
          /\ resp' = Response("updateUser", s, UserBody(userId, role, organizationId), 200,
                               updatedUser, 0)
          /\ UNCHANGED <<organizations, tasks, nextTaskId, session, analysis>>

\* The row of a join that stops at users: no organization name is selected.
JoinedRowWithoutOrganization(t) ==
  LET u == users[t.userId]
  IN [id |-> t.id, description |-> t.description, username |-> u.username,
      userId |-> u.id, userRole |-> u.role, organizationId |-> u.organizationId,
      organizationName |-> None,
      estimatedMinutes |-> t.estimatedMinutes,
      estimatedMinutesWithAI |-> t.estimatedMinutesWithAI,
      aiPotential |-> t.aiPotential, completedAt |-> t.createdAt]

\* The row of the three-table left join for one completed task.
JoinedRow(t) ==
  LET u == users[t.userId]
      orgs == {o \in organizations : u.organizationId = Some(o.id)}
  IN [id |-> t.id, description |-> t.description, username |-> u.username,
      userId |-> u.id, userRole |-> u.role, organizationId |-> u.organizationId,
      organizationName |-> IF orgs = {} THEN None ELSE Some((CHOOSE o \in orgs : TRUE).name),
      estimatedMinutes |-> t.estimatedMinutes,
      estimatedMinutesWithAI |-> t.estimatedMinutesWithAI,
      aiPotential |-> t.aiPotential, completedAt |-> t.createdAt]

\* Statistics whose first bucket also takes the tasks not analysed yet.
GlobalStatsCountingPending(completedTasks) ==
  LET names == {r.username : r \in completedTasks}
      rowsOf(n) == {r \in completedTasks : r.username = n}
      first(n) == CHOOSE r \in rowsOf(n) : TRUE
  IN [totalTasks |-> Cardinality(completedTasks),
      totalTimeSaved |-> TimeSaved(completedTasks),
      tasksByUser |->
        [n \in names |->
           [userId |-> first(n).userId,
            completed |-> Cardinality(rowsOf(n)),
            timeSaved |-> TimeSaved(rowsOf(n)),
            organizationName |-> IF IsSome(first(n).organizationName)
                                 THEN Val(first(n).organizationName)
                                 ELSE "No Organization",
            organizationId |-> first(n).organizationId,
            role |-> first(n).userRole]],
      tasksByAIPotential |->
        [p \in PotentialValues |->
           Cardinality({r \in completedTasks :
                          r.aiPotential = p \/ (p = "none" /\ r.aiPotential = "pending")})]]

\* stats of GET /api/admin/stats over the joined rows.
GlobalStats(completedTasks) ==
  LET names == {r.username : r \in completedTasks}
      rowsOf(n) == {r \in completedTasks : r.username = n}
      first(n) == CHOOSE r \in rowsOf(n) : TRUE
  IN [totalTasks |-> Cardinality(completedTasks),
      totalTimeSaved |-> TimeSaved(completedTasks),
      tasksByUser |->
        [n \in names |->
           [userId |-> first(n).userId,
            completed |-> Cardinality(rowsOf(n)),
            timeSaved |-> TimeSaved(rowsOf(n)),
            organizationName |-> IF IsSome(first(n).organizationName)
                                 THEN Val(first(n).organizationName)
                                 ELSE "No Organization",
            organizationId |-> first(n).organizationId,
            role |-> first(n).userRole]],
      tasksByAIPotential |->
        [p \in PotentialValues |-> Cardinality({r \in completedTasks : r.aiPotential = p})]]

\* GET /api/admin/stats
GetAdminStats(s) ==
  IF ~IsAuthenticated(s)
  THEN Reply(NotAuthenticated("globalStats", s, None))
  ELSE IF ~IsAdmin(ReqUser(s))
  THEN Reply(NotAuthorized("globalStats", s, None))
  ELSE LET completedTasks == {JoinedRow(t) : t \in {r \in tasks : r.completed}}
       IN Reply(Response("globalStats", s, None, 200,
                         [stats |-> GlobalStats(completedTasks), tasks |-> completedTasks], 0))

\* ------------------------------------------------------------ specification
\* The response leaves the server; the next request is served after it.
Sent ==
  /\ resp # NoResponse
  /\ resp' = NoResponse
  /\ UNCHANGED <<organizations, users, tasks, nextTaskId, session, analysis, writes>>

\* A request is served once the previous response has left the server.
Ready == resp = NoResponse

Next ==
  \/ \E s \in Sessions, r \in Registrations, salt \in Salts :
       Ready /\ Register(s, r.username, r.password, salt)
  \/ \E s \in Sessions, c \in Credentials : Ready /\ Login(s, c.username, c.password)
  \/ \E s \in Sessions : Ready /\ Logout(s)
  \/ \E s \in Sessions : Ready /\ GetUser(s)
  \/ \E s \in Sessions : Ready /\ GetTasks(s)
  \/ \E s \in Sessions, r \in CreateRequests :
       Ready /\ CreateTask(s, r.description, r.priority, r.reply)
  \/ \E s \in Sessions, id \in TaskIdInputs, r \in DetailsReplies : Ready /\ GetAIDetails(s, id, r)
  \/ \E s \in Sessions, id \in TaskIdInputs, p \in PriorityInputs : Ready /\ UpdatePriority(s, id, p)
  \/ \E s \in Sessions, id \in TaskIdInputs, c \in CompletedInputs : Ready /\ SetCompleted(s, id, c)
  \/ \E s \in Sessions, id \in TaskIdInputs : Ready /\ DeleteTask(s, id)
  \/ \E s \in Sessions : Ready /\ GetStats(s)
  \/ \E s \in Sessions : Ready /\ AnalyzeStart(s)
  \/ \E s \in Sessions, r \in AnnotationReplies : Ready /\ AnalyzeStep(s, r[1], r[2])
  \/ \E s \in Sessions : Ready /\ AnalyzeFinish(s)
  \/ \E s \in Sessions : Ready /\ GetOrganizations(s)
  \/ \E s \in Sessions, id \in UserIdInputs, b \in UserBodies :
       Ready /\ UpdateUser(s, id, b.role, b.organizationId)
  \/ \E s \in Sessions : Ready /\ GetAdminStats(s)
  \/ Sent

Spec == Init /\ [][Next]_vars

\* A row as POST /api/tasks inserted it for user uid.
InsertedTask(id, uid, description, priority, manual, withAI) ==
  [id |-> id, userId |-> uid, description |-> description,
   priority |-> priority, aiPotential |-> "pending",
   estimatedMinutes |-> Some(manual), estimatedMinutesWithAI |-> withAI,
   coachingTips |-> None, motivationalScore |-> None,
   createdAt |-> id, completed |-> FALSE]

\* The same database later in its life, two tasks created and none analysed
\* yet: either alice has logged in from two browsers and both tasks are
\* hers, or alice and root have logged in from one browser each and own one
\* task each.
InitAnalysis ==
  /\ organizations = {[id |-> 1, name |-> "Acme"]}
  /\ users = << [id |-> 1, username |-> "root",
                 password |-> hashPassword("rootpw1", "salt1"),
                 role |-> "admin", organizationId |-> None],
                [id |-> 2, username |-> "alice",
                 password |-> hashPassword("secret1", "salt2"),
                 role |-> "user", organizationId |-> Some(1)] >>
  /\ \E other \in {1, 2} :
       /\ tasks = {InsertedTask(1, 2, "write report", "high", 30, Some(10)),
                   InsertedTask(2, other, "call client", "medium", 30, Some(0))}
       /\ session = [s \in Sessions |-> IF s = "s1" THEN Some(2) ELSE Some(other)]
  /\ nextTaskId = 3
  /\ analysis = [s \in Sessions |-> NoAnalysis]
  /\ writes = 0
  /\ resp = NoResponse

\* The edits made on the user administration page: a promotion that leaves
\* the organization alone, and a role the page does not offer.
AdminEdits ==
  { [role |-> Some("admin"), organizationId |-> None],
    [role |-> Some("owner"), organizationId |-> Some(Some(1))] }

\* The requests of the task pages and of the user administration page of
\* the two browsers.
NextAnalysis ==
  \/ \E s \in Sessions, id \in {2, 3}, b \in AdminEdits :
       Ready /\ UpdateUser(s, id, b.role, b.organizationId)
  \/ \E s \in Sessions : Ready /\ GetAdminStats(s)
  \/ \E s \in Sessions, r \in CreateRequests :
       Ready /\ CreateTask(s, r.description, r.priority, r.reply)
  \/ \E s \in Sessions, id \in TaskIdInputs, c \in CompletedInputs : Ready /\ SetCompleted(s, id, c)
  \/ \E s \in Sessions, id \in TaskIdInputs : Ready /\ DeleteTask(s, id)
  \/ \E s \in Sessions : Ready /\ AnalyzeStart(s)
  \/ \E s \in Sessions, r \in AnnotationReplies : Ready /\ AnalyzeStep(s, r[1], r[2])
  \/ \E s \in Sessions : Ready /\ AnalyzeFinish(s)
  \/ Sent

SpecAnalysis == InitAnalysis /\ [][NextAnalysis]_vars

\* The ways the pair of annotation calls of one loop iteration settles: both
\* resolve, the first rejects, the second rejects.
AwaitReplies ==
  { <<Analysis("some", "Break it down", Some(50)), Estimate(Some(30), Some(0))>>,
    <<ApiError, Estimate(Some(30), Some(10))>>,
    <<Analysis("some", "Break it down", Some(50)), ApiError>> }

\* Requests of the task pages: analysis runs, whose loop awaits the
\* annotation service once per task, and routes that never call it (the
\* list, the completed flag, the delete and the stats).
NextAwait ==
  \/ \E s \in Sessions : Ready /\ GetTasks(s)
  \/ \E s \in Sessions, id \in TaskIdInputs, c \in CompletedInputs : Ready /\ SetCompleted(s, id, c)
  \/ \E s \in Sessions, id \in TaskIdInputs : Ready /\ DeleteTask(s, id)
  \/ \E s \in Sessions : Ready /\ GetStats(s)
  \/ \E s \in Sessions : Ready /\ AnalyzeStart(s)
  \/ \E s \in Sessions, r \in AwaitReplies : Ready /\ AnalyzeStep(s, r[1], r[2])
  \/ \E s \in Sessions : Ready /\ AnalyzeFinish(s)
  \/ Sent

\* What the event loop and the annotation service are taken to guarantee: a
\* response that is ready is sent; the pair of annotation calls a run awaits
\* settles (resolves or rejects), and the continuation of the await runs
\* although other requests keep being served in between.
FairAwait ==
  /\ WF_vars(Sent)
  /\ \A s \in Sessions :
       /\ SF_vars(\E r \in AwaitReplies : Ready /\ AnalyzeStep(s, r[1], r[2]))
       /\ SF_vars(Ready /\ AnalyzeFinish(s))

SpecAwait == InitAnalysis /\ [][NextAwait]_vars /\ FairAwait


\* ------------------------------------------------------------------ claims
\* The rows of a task-list response body.
Listed(r) == {r.body[i] : i \in DOMAIN r.body}

\* C1: the task list returned to a user, by GET /api/tasks and by a completed
\* POST /api/tasks/analyze, holds exactly the tasks whose userId is that
\* user's id, each once.
C1_ListIsExactlyOwnTasks ==
  (resp.op \in {"listTasks", "analyze"} /\ resp.status = 200) =>
     /\ Listed(resp) = {t \in tasks : t.userId = Val(resp.caller)}
     /\ Len(resp.body) = Cardinality(Listed(resp))

\* C1 witness: a user is shown a non-empty list while another user owns tasks.
C1_Witness ==
  /\ resp.op = "listTasks" /\ resp.status = 200
  /\ resp.body # <<>>
  /\ \E t \in tasks : t.userId # Val(resp.caller)

\* C2: no successful response of login, GET /api/user or the admin user
\* update carries the user's password field.
C2_PasswordNeverExposed ==
  (resp.op \in {"login", "getUser", "updateUser"} /\ resp.status = 200) =>
     "password" \notin DOMAIN resp.body

\* C3: when a run of analyzePending ends, the task whose annotation was
\* rejected is still pending and every other task of the run's snapshot has
\* been analysed (is no longer pending): the failure did not keep a sibling
\* from being analysed.
C3_FailureIsolatedPerTask ==
  (resp.op = "analyze" /\ resp.status \in {200, 500}) =>
     \A t \in tasks :
        /\ t.id \in resp.run.rejected => t.aiPotential = "pending"
        /\ t.id \in (resp.run.annotated \cup resp.run.unreached) =>
             t.aiPotential \in PotentialValues

\* Time saved under the both-fields-present rule: the difference of the two
\* estimates over the rows where neither is null, zero included.
RECURSIVE PresentTimeSaved(_)
PresentTimeSaved(rows) ==
  IF rows = {} THEN 0
  ELSE LET t == CHOOSE r \in rows : TRUE
       IN (IF IsSome(t.estimatedMinutes) /\ IsSome(t.estimatedMinutesWithAI)
           THEN Val(t.estimatedMinutes) - Val(t.estimatedMinutesWithAI) ELSE 0)
          + PresentTimeSaved(rows \ {t})

\* C4: totalTimeSaved of stats and of globalStats, and each per-user
\* timeSaved, is the sum of estimatedMinutes - estimatedMinutesWithAI over the
\* completed tasks in scope whose two estimates are both non-null.
C4_TimeSavedOverPresentEstimates ==
  /\ (resp.op = "stats" /\ resp.status = 200) =>
        resp.body.totalTimeSaved =
          PresentTimeSaved({t \in tasks : t.userId = Val(resp.caller) /\ t.completed})
  /\ (resp.op = "globalStats" /\ resp.status = 200) =>
        /\ resp.body.stats.totalTimeSaved = PresentTimeSaved({t \in tasks : t.completed})
        /\ \A n \in DOMAIN resp.body.stats.tasksByUser :
              resp.body.stats.tasksByUser[n].timeSaved =
                PresentTimeSaved({t \in tasks : t.completed /\ users[t.userId].username = n})

\* The rank the priorities are meant to sort by.
PriorityRank(p) == CASE p = "high" -> 1 [] p = "medium" -> 2 [] p = "low" -> 3

\* C5: GET /api/tasks lists high before medium before low, and older before
\* newer within one priority.
C5_ListedByPriorityRank ==
  (resp.op = "listTasks" /\ resp.status = 200) =>
     \A i, j \in DOMAIN resp.body :
        i < j =>
          \/ PriorityRank(resp.body[i].priority) < PriorityRank(resp.body[j].priority)
          \/ /\ resp.body[i].priority = resp.body[j].priority
             /\ resp.body[i].createdAt < resp.body[j].createdAt

AdminOps == {"listOrganizations", "updateUser", "globalStats"}

\* C6: an admin route called on a session whose user is not an admin answers
\* 403 with the message only, whatever the payload, and changes no row.
C6_NonAdminForbidden ==
  [][ (/\ resp'.op \in AdminOps
       /\ IsSome(resp'.caller)
       /\ users[Val(resp'.caller)].role # "admin")
      => /\ resp'.status = 403
         /\ resp'.body = "Not authorized"
         /\ UNCHANGED <<organizations, users, tasks, nextTaskId>> ]_vars

\* C6 witness: a non-admin is refused a user update that names an existing
\* user and a valid role.
C6_Witness ==
  /\ resp.op = "updateUser" /\ resp.status = 403
  /\ resp.request.userId \in DOMAIN users
  /\ resp.request.role = Some("admin")

SessionOps ==
  {"getUser", "listTasks", "createTask", "aiDetails", "updatePriority", "setCompleted",
   "deleteTask", "stats", "analyze", "listOrganizations", "updateUser", "globalStats"}

\* C7: a session-authenticated route called on an anonymous session answers
\* 401 whatever its input, calls no annotation and changes nothing.
C7_AnonymousRejected ==
  [][ (resp'.op \in SessionOps /\ resp'.caller = None)
      => /\ resp'.status = 401
         /\ resp'.annotationCalls = 0
         /\ UNCHANGED <<organizations, users, tasks, nextTaskId, session, analysis>> ]_vars

\* C7 witness: an anonymous create with an empty description is answered 401,
\* not 400.
C7_Witness ==
  /\ resp.op = "createTask" /\ resp.status = 401
  /\ resp.request.description = Some("")

\* C8: no two users share a username; a registration under a taken name
\* changes no user and, when its fields are valid, answers 409.
C8_UsernamesUnique ==
  [][ /\ \A i, j \in DOMAIN users' : users'[i].username = users'[j].username => i = j
      /\ (/\ resp'.op = "register"
          /\ \E i \in DOMAIN users : users[i].username = resp'.request.username)
         => /\ users' = users
            /\ StringLength(resp'.request.password) >= 6 => resp'.status = 409 ]_vars

\* C8 witness: a second registration of a name that was registered earlier in
\* the run is answered 409.
C8_Witness ==
  /\ resp.op = "register" /\ resp.status = 409
  /\ resp.request.username = "bob"

\* C9: an authenticated create whose description is missing or empty, or
\* whose priority is not high, medium or low, answers 400, calls no
\* annotation and inserts nothing.
C9_InvalidCreateRejected ==
  [][ (/\ resp'.op = "createTask"
       /\ IsSome(resp'.caller)
       /\ \/ resp'.request.description \in {None, Some("")}
          \/ resp'.request.priority \notin {Some(p) : p \in Priorities})
      => /\ resp'.status = 400
         /\ resp'.annotationCalls = 0
         /\ tasks' = tasks ]_vars

\* C9 witness: an authenticated create with an empty description got 400.
C9_Witness ==
  /\ resp.op = "createTask" /\ resp.status = 400
  /\ resp.request.description = Some("")

\* C10: a create answered 201 added exactly the returned task, which belongs
\* to the caller, has the description and priority of the request, is
\* pending and is not completed.
C10_CreatedTaskAsRequested ==
  [][ (resp'.op = "createTask" /\ resp'.status = 201)
      => /\ resp'.body \notin tasks
         /\ tasks' = tasks \cup {resp'.body}
         /\ \A t \in tasks : t.id # resp'.body.id
         /\ resp'.body.userId = Val(resp'.caller)
         /\ resp'.body.description = Val(resp'.request.description)
         /\ resp'.body.priority = Val(resp'.request.priority)
         /\ resp'.body.aiPotential = "pending"
         /\ resp'.body.completed = FALSE ]_vars

\* C10 witness: a low-priority task was created.
C10_Witness ==
  /\ resp.op = "createTask" /\ resp.status = 201
  /\ resp.body.priority = "low"

\* C11: an authenticated, valid create whose time-estimate call fails (the
\* API errors, or the reply has no numeric manualMinutes) answers 500 with an
\* error message and inserts no task.
C11_CreateBlockedOnEstimate ==
  [][ (/\ resp'.op = "createTask"
       /\ resp'.annotationCalls = 1
       /\ resp'.estimateReply.error \/ resp'.estimateReply.manualMinutes = None)
      => /\ resp'.status = 500
         /\ resp'.body = "Failed to create task"
         /\ tasks' = tasks
         /\ nextTaskId' = nextTaskId ]_vars

\* C11 witness: a create was refused because the estimate reply carried no
\* manualMinutes, while the table still had room for the row.
C11_Witness ==
  /\ resp.op = "createTask" /\ resp.status = 500
  /\ ~resp.estimateReply.error
  /\ nextTaskId <= MaxTasks

\* C12: updatePriority (with a valid priority) and setCompleted by user U
\* answer 404 and change no task when U owns no task with the given id, a
\* task of another user included; when U owns it, exactly that task gets the
\* given priority (resp. completed flag) and the updated row is returned.
C12_UpdateOwnedOrNotFound ==
  [][ (/\ resp'.op \in {"updatePriority", "setCompleted"}
       /\ IsSome(resp'.caller)
       /\ resp'.op = "updatePriority" => resp'.request.priority \in {Some(p) : p \in Priorities})
      => LET owned == {t \in tasks : /\ t.id = resp'.request.taskId
                                     /\ t.userId = Val(resp'.caller)}
             Updated(t) == IF resp'.op = "updatePriority"
                           THEN [t EXCEPT !.priority = Val(resp'.request.priority)]
                           ELSE [t EXCEPT !.completed = resp'.request.completed]
         IN IF owned = {}
            THEN /\ resp'.status = 404
                 /\ resp'.body = "Task not found"
                 /\ tasks' = tasks
            ELSE \E t \in owned :
                   /\ resp'.status = 200
                   /\ resp'.body = Updated(t)
                   /\ tasks' = (tasks \ {t}) \cup {Updated(t)} ]_vars

\* C12 witness: a user asked to complete a task that exists but belongs to
\* another user, and got 404.
C12_Witness ==
  /\ resp.op = "setCompleted" /\ resp.status = 404
  /\ resp.request.completed = TRUE
  /\ \E t \in tasks : t.id = resp.request.taskId /\ t.userId # Val(resp.caller)

ByIdOps == {"aiDetails", "updatePriority", "setCompleted", "deleteTask"}

\* What a task-by-id operation answers when the id matches no task at all:
\* it depends on the operation and the request body only.
AbsentOutcome(r) ==
  CASE r.op = "aiDetails" -> <<404, "Task not found", 0>>
    [] r.op = "updatePriority" ->
         IF r.request.priority \in {Some(p) : p \in Priorities}
         THEN <<404, "Task not found", 0>>
         ELSE <<400, "Valid priority level is required", 0>>
    [] r.op = "setCompleted" -> <<404, "Task not found", 0>>
    [] r.op = "deleteTask" -> <<204, "", 0>>

\* C13: a task-by-id operation answers a caller who names a task of another
\* user exactly as it answers an id that matches no task: same status, same
\* body, no annotation call.
C13_ForeignTaskLooksAbsent ==
  (/\ resp.op \in ByIdOps
   /\ IsSome(resp.caller)
   /\ \A t \in tasks : t.id = resp.request.taskId => t.userId # Val(resp.caller))
  => <<resp.status, resp.body, resp.annotationCalls>> = AbsentOutcome(resp)

\* C13 witness: implementation details were asked for a task that exists and
\* belongs to another user.
C13_Witness ==
  /\ resp.op = "aiDetails"
  /\ IsSome(resp.caller)
  /\ \E t \in tasks : t.id = resp.request.taskId /\ t.userId # Val(resp.caller)

\* The user whose stored credentials a username/password pair verifies
\* against, as a set (empty when the name is unknown or the password wrong).
VerifiedBy(rows, c) ==
  {i \in DOMAIN rows : /\ rows[i].username = c.username
                        /\ scrypt(c.password, rows[i].password.salt) = rows[i].password.hashed}

\* C14: a login that fails, because the username is unknown or because the
\* password is wrong for a known username, has one outcome: 401 with the
\* message "Invalid username or password", and no session is changed.
C14_FailedLoginTellsNothing ==
  [][ (resp'.op = "login" /\ VerifiedBy(users, resp'.request) = {})
      => /\ resp'.status = 401
         /\ resp'.body = "Invalid username or password"
         /\ resp'.annotationCalls = 0
         /\ session' = session ]_vars

\* C14 witness: a login under a known username with the password of another
\* user failed.
C14_Witness ==
  /\ resp.op = "login" /\ resp.status = 401
  /\ \E i \in DOMAIN users : users[i].username = resp.request.username
  /\ session[resp.session] = None

C16_LogoutIdempotent ==
  [][ resp'.op = "logout"
      => /\ resp'.status = 200
         /\ resp'.body = "OK"
         /\ session' = [session EXCEPT ![resp'.session] = None]
         /\ session[resp'.session] = None => session' = session
         /\ UNCHANGED <<organizations, users, tasks, nextTaskId, analysis>> ]_vars

\* C16 witness: a logout arrived on a session that was already anonymous,
\* with tasks in the store.
C16_Witness ==
  /\ resp.op = "logout" /\ resp.status = 200
  /\ resp.caller = None
  /\ tasks # {}

\* The columns an analysis run writes.
Annotation(t) ==
  <<t.aiPotential, t.coachingTips, t.motivationalScore, t.estimatedMinutes,
    t.estimatedMinutesWithAI>>

C19_AdminUpdateTakesEffect ==
  [][ (/\ resp'.op = "updateUser"
       /\ IsSome(resp'.caller)
       /\ users[Val(resp'.caller)].role = "admin")
      => LET rq == resp'.request
         IN IF rq.role \notin {Some(r) : r \in Roles}
            THEN resp'.status = 400 /\ users' = users
            ELSE IF rq.userId \notin DOMAIN users
            THEN resp'.status = 404 /\ users' = users
            ELSE IsSome(rq.organizationId) =>
                   /\ resp'.status = 200
                   /\ users' = [users EXCEPT ![rq.userId] =
                                   [@ EXCEPT !.role = Val(rq.role),
                                             !.organizationId = Val(rq.organizationId)]]
                   /\ resp'.body = users'[rq.userId] ]_vars

\* C20: a user row enters the table with role user and is never removed;
\* the role or organizationId of a user changes only in a step that serves
\* an updateUser request naming that user, answered 200, whose caller has
\* role admin when the request is served.
C20_RoleChangedOnlyByAdmin ==
  [][ /\ DOMAIN users \subseteq DOMAIN users'
      /\ \A i \in DOMAIN users' \ DOMAIN users : users'[i].role = "user"
      /\ \A i \in DOMAIN users :
            (\/ users'[i].role # users[i].role
             \/ users'[i].organizationId # users[i].organizationId)
            => /\ resp'.op = "updateUser"
               /\ resp'.status = 200
               /\ resp'.request.userId = i
               /\ IsSome(resp'.caller)
               /\ users[Val(resp'.caller)].role = "admin" ]_vars

\* C20 witness: an admin has given another user the admin role.
C20_Witness ==
  /\ resp.op = "updateUser" /\ resp.status = 200
  /\ resp.request.userId # Val(resp.caller)
  /\ users[resp.request.userId].role = "admin"

\* The name globalStats is to report for a user's organization.
OrganizationNameOf(u) ==
  LET orgs == {o \in organizations : Some(o.id) = u.organizationId}
  IN IF orgs = {} THEN "No Organization" ELSE (CHOOSE o \in orgs : TRUE).name

RECURSIVE SumCompleted(_, _)
SumCompleted(entries, names) ==
  IF names = {} THEN 0
  ELSE LET n == CHOOSE x \in names : TRUE
       IN entries[n].completed + SumCompleted(entries, names \ {n})

RECURSIVE SumTimeSaved(_, _)
SumTimeSaved(entries, names) ==
  IF names = {} THEN 0
  ELSE LET n == CHOOSE x \in names : TRUE
       IN entries[n].timeSaved + SumTimeSaved(entries, names \ {n})

\* C21: globalStats agrees with the store: totalTasks is the number of
\* completed tasks; tasksByUser has exactly one entry per username owning a
\* completed task, carrying that user's id, role, organizationId, number of
\* completed tasks, time saved (over the completed tasks whose two estimates
\* are both present) and organization name or "No Organization"; the
\* per-user counts add up to totalTasks and the per-user timeSaved to
\* totalTimeSaved.
C21_GlobalStatsMatchStore ==
  (resp.op = "globalStats" /\ resp.status = 200) =>
     LET stats == resp.body.stats
         completedTasks == {t \in tasks : t.completed}
         owners == {users[t.userId].username : t \in completedTasks}
     IN /\ stats.totalTasks = Cardinality(completedTasks)
        /\ DOMAIN stats.tasksByUser = owners
        /\ \A i \in DOMAIN users :
              users[i].username \in owners =>
                LET entry == stats.tasksByUser[users[i].username]
                    mine == {t \in completedTasks : t.userId = i}
                IN /\ entry.userId = i
                   /\ entry.role = users[i].role
                   /\ entry.organizationId = users[i].organizationId
                   /\ entry.organizationName = OrganizationNameOf(users[i])
                   /\ entry.completed = Cardinality(mine)
                   /\ entry.timeSaved = PresentTimeSaved(mine)
        /\ SumCompleted(stats.tasksByUser, owners) = stats.totalTasks
        /\ SumTimeSaved(stats.tasksByUser, owners) = stats.totalTimeSaved

\* C22: tasksByAIPotential has the buckets none, some and advanced, each
\* counting exactly the completed tasks with that aiPotential; a completed
\* task that is still pending is in no bucket, so the three counts add up to
\* totalTasks less the completed pending tasks.
C22_BucketsCountAnalysedOnly ==
  (resp.op = "globalStats" /\ resp.status = 200) =>
     LET buckets == resp.body.stats.tasksByAIPotential
         completedTasks == {t \in tasks : t.completed}
     IN /\ DOMAIN buckets = {"none", "some", "advanced"}
        /\ \A p \in DOMAIN buckets :
              buckets[p] = Cardinality({t \in completedTasks : t.aiPotential = p})
        /\ buckets["none"] + buckets["some"] + buckets["advanced"]
             = resp.body.stats.totalTasks
               - Cardinality({t \in completedTasks : t.aiPotential = "pending"})

\* C22 witness: the statistics were taken with one completed task analysed
\* and another completed task still pending.
C22_Witness ==
  /\ resp.op = "globalStats" /\ resp.status = 200
  /\ \E t \in tasks : t.completed /\ t.aiPotential = "pending"
  /\ \E t \in tasks : t.completed /\ t.aiPotential \in PotentialValues

\* C23: an updateUser answered 200 that supplies an organization leaves the
\* user with the supplied role and organization; no other request changes
\* them; and every globalStats reports, for each user owning a completed
\* task, the role, organizationId and organization name the user has in the
\* store when the statistics are taken.  Hence a reassignment shows in every
\* later globalStats until the next one.
C23_StatsFollowReassignment ==
  [][ /\ (/\ resp'.op = "updateUser" /\ resp'.status = 200
          /\ IsSome(resp'.request.organizationId)) =>
            /\ users'[resp'.request.userId].role = Val(resp'.request.role)
            /\ users'[resp'.request.userId].organizationId =
                  Val(resp'.request.organizationId)
      /\ resp'.op # "updateUser" =>
            \A i \in DOMAIN users :
               /\ users'[i].role = users[i].role
               /\ users'[i].organizationId = users[i].organizationId
      /\ (resp'.op = "globalStats" /\ resp'.status = 200) =>
            \A i \in DOMAIN users' :
               (\E t \in tasks' : t.completed /\ t.userId = i) =>
                  /\ users'[i].username \in DOMAIN resp'.body.stats.tasksByUser
                  /\ LET entry == resp'.body.stats.tasksByUser[users'[i].username]
                     IN /\ entry.role = users'[i].role
                        /\ entry.organizationId = users'[i].organizationId
                        /\ entry.organizationName = OrganizationNameOf(users'[i])
    ]_vars

\* C23 witness: root, who started without an organization, owns a completed
\* task and is reported as an admin of Acme.
C23_Witness ==
  /\ resp.op = "globalStats" /\ resp.status = 200
  /\ "root" \in DOMAIN resp.body.stats.tasksByUser
  /\ resp.body.stats.tasksByUser["root"].organizationName = "Acme"
  /\ resp.body.stats.tasksByUser["root"].role = "admin"

\* C24: deleteTask by user U answers 204 with an empty body in every case;
\* it removes the task with the given id when U owns it and changes no task
\* otherwise.  A removed id never comes back (ids are given out once), and
\* listTasks, analyze, stats and globalStats report tasks of the store only,
\* so a deleted task appears in none of them again.
C24_DeletedStaysDeleted ==
  [][ /\ (resp'.op = "deleteTask" /\ IsSome(resp'.caller)) =>
            /\ resp'.status = 204
            /\ resp'.body = ""
            /\ tasks' = {t \in tasks : ~(/\ t.id = resp'.request.taskId
                                           /\ t.userId = Val(resp'.caller))}
      /\ \A t \in tasks : t.id < nextTaskId
      /\ \A t \in tasks' :
            \/ \E o \in tasks : o.id = t.id
            \/ t.id = nextTaskId /\ nextTaskId' = nextTaskId + 1
      /\ (resp'.op \in {"listTasks", "analyze"} /\ resp'.status = 200) =>
            Listed(resp') \subseteq tasks'
      /\ (resp'.op = "stats" /\ resp'.status = 200) =>
            resp'.body.totalTasksCompleted =
              Cardinality({t \in tasks' : t.completed /\ t.userId = Val(resp'.caller)})
      /\ (resp'.op = "globalStats" /\ resp'.status = 200) =>
            /\ {r.id : r \in resp'.body.tasks} = {t.id : t \in {x \in tasks' : x.completed}}
            /\ resp'.body.stats.totalTasks = Cardinality({t \in tasks' : t.completed})
    ]_vars

\* C24 witness: a delete was answered for an id that was given out earlier
\* and is no longer in the store.
C24_Witness ==
  /\ resp.op = "deleteTask" /\ resp.status = 204
  /\ IsSome(resp.caller)
  /\ resp.request.taskId < nextTaskId
  /\ \A t \in tasks : t.id # resp.request.taskId

\* C25: in every state a task that is not pending has aiPotential none,
\* some or advanced, non-empty coachingTips and a motivationalScore from 1 to
\* 100, and a pending task has neither coachingTips nor motivationalScore.
C25_AnnotationWellFormed ==
  \A t \in tasks :
     IF t.aiPotential = "pending"
     THEN t.coachingTips = None /\ t.motivationalScore = None
     ELSE /\ t.aiPotential \in PotentialValues
          /\ IsSome(t.coachingTips) /\ Val(t.coachingTips) # ""
          /\ IsSome(t.motivationalScore)
          /\ Val(t.motivationalScore) >= 1 /\ Val(t.motivationalScore) <= 100

\* C25 witness: a task was analysed from a reply with empty coaching tips
\* and the lowest score, next to a task still pending.
C25_Witness ==
  /\ \E t \in tasks : /\ t.coachingTips = Some("No coaching tips available.")
                       /\ t.motivationalScore = Some(1)
  /\ \E t \in tasks : t.aiPotential = "pending"

\* C26: in every state the two estimates of a task are each null or an
\* integer that is not negative.
C26_EstimatesNotNegative ==
  \A t \in tasks :
     /\ IsSome(t.estimatedMinutes) => Val(t.estimatedMinutes) >= 0
     /\ IsSome(t.estimatedMinutesWithAI) => Val(t.estimatedMinutesWithAI) >= 0

\* C28: an admin route decides by the role the caller has in the users table
\* when the request is served: it answers 403 exactly when that role is not
\* admin, and the step changes no session.  So a demotion or promotion
\* applies to the next request of a session established before it.
C28_RoleReadPerRequest ==
  [][ (resp'.op \in AdminOps /\ IsSome(resp'.caller))
      => /\ resp'.status = 403 <=> users[Val(resp'.caller)].role # "admin"
         /\ session' = session ]_vars

\* C28 witness: root logged in and was demoted (two state-changing requests
\* in all), and the next admin request on that session is refused.
C28_Witness ==
  /\ resp.op \in AdminOps /\ resp.status = 403
  /\ resp.caller = Some(1)
  /\ writes = 2

\* The columns an analysis run leaves alone.
Kept(t) == <<t.id, t.userId, t.description, t.priority, t.completed, t.createdAt>>

Unblocked(o) ==
  /\ ENABLED (Ready /\ GetTasks(o) /\ resp'.op = "listTasks")
  /\ ENABLED (Ready /\ GetStats(o) /\ resp'.op = "stats")
  /\ writes < MaxWrites =>
       \A id \in TaskIdInputs :
         /\ \A p \in PriorityInputs :
              ENABLED (Ready /\ UpdatePriority(o, id, p) /\ resp'.op = "updatePriority")
         /\ \A c \in CompletedInputs :
              ENABLED (Ready /\ SetCompleted(o, id, c) /\ resp'.op = "setCompleted")
         /\ ENABLED (Ready /\ DeleteTask(o, id) /\ resp'.op = "deleteTask")

\* C27: while an analysis run waits on the annotation service, every session
\* (that of the run, and the other one, of the same or of another user) can
\* be served the routes that need no annotation; and if the annotation calls
\* a run awaits settle, the run answers its request.
C27_AwaitBlocksOnlyItsRequest ==
  /\ [](\A s \in Sessions :
          (analysis[s].active /\ Ready) => \A o \in Sessions : Unblocked(o))
  /\ \A s \in Sessions :
       analysis[s].active ~> (resp.op = "analyze" /\ resp.session = s)

\* C27 witness: a run has annotated one task and awaits the annotation of
\* the next, and meanwhile a change made from the other session was answered.
C27_Witness ==
  \E s \in Sessions :
    /\ analysis[s].active
    /\ analysis[s].done # {}
    /\ analysis[s].queue # <<>>
    /\ resp.op \in {"updatePriority", "setCompleted", "deleteTask"}
    /\ resp.session # s
    /\ resp.status \in {200, 204}
    /\ writes = 3

\* The columns the analysis of a task's potential fills.
PotentialColumns(t) == <<t.aiPotential, t.coachingTips, t.motivationalScore>>

\* C30 as stated: once a task's aiPotential is not pending, no step changes
\* its aiPotential, coachingTips or motivationalScore.
C30_AnnotatedAtMostOnce ==
  [][ \A t \in tasks, n \in tasks' :
        (n.id = t.id /\ t.aiPotential # "pending")
          => PotentialColumns(n) = PotentialColumns(t) ]_vars

\* C30 amended: a run takes into its snapshot only tasks of its user that
\* are pending when it starts, each once; what it has done it does not hold
\* to do again; and the potential of an analysed task is written again only
\* by a run in flight that read the task as pending and has not done it yet.
C30_AnnotatedOncePerRun ==
  [][ /\ \A s \in Sessions :
           LET run == analysis'[s]
           IN /\ (~analysis[s].active /\ run.active) =>
                    \A i \in DOMAIN run.queue :
                       /\ run.queue[i] \in tasks
                       /\ run.queue[i].aiPotential = "pending"
                       /\ run.queue[i].userId = run.user
              /\ run.active =>
                    /\ \A i, j \in DOMAIN run.queue :
                          i # j => run.queue[i].id # run.queue[j].id
                    /\ \A i \in DOMAIN run.queue : run.queue[i].id \notin run.done
      /\ \A t \in tasks, n \in tasks' :
           (/\ n.id = t.id
            /\ t.aiPotential # "pending"
            /\ PotentialColumns(n) # PotentialColumns(t))
             => \E s \in Sessions :
                   LET run == analysis[s]
                   IN /\ run.active /\ run.queue # <<>>
                      /\ Head(run.queue).id = t.id
                      /\ Head(run.queue).aiPotential = "pending"
                      /\ run.user = t.userId
                      /\ t.id \notin run.done
                      /\ analysis'[s].done = run.done \cup {t.id} ]_vars

\* C30 witness: two runs of the same user are in flight and both have
\* annotated the same task.
C30_Witness ==
  \E s1, s2 \in Sessions :
    /\ s1 # s2
    /\ analysis[s1].active /\ analysis[s2].active
    /\ analysis[s1].user = analysis[s2].user
    /\ \E t \in tasks : /\ t.id \in analysis[s1].done \cap analysis[s2].done
                         /\ t.aiPotential \in PotentialValues

====
